---- MODULE Spec2Model ----
(***************************************************************************)
(* Model of the due-diligence workflow: the task runner (run_agent), the   *)
(* research and analysis nodes (fan-out with asyncio.gather, fan-in into a *)
(* state delta), the validation node, the routing functions and the state  *)
(* reducers of DueDiligenceState.                                          *)
(*                                                                         *)
(* Optional[T] values are sequences of length at most one: None is <<>>    *)
(* and a present value x is <<x>>.  Dictionaries are records; d.get(k) is  *)
(* Get(d, k).  execution_time_ms is wall-clock time and is left out.       *)
(***************************************************************************)
EXTENDS Integers, Sequences, FiniteSets, TLC

VARIABLES
    state,        \* DueDiligenceState, the run state the engine threads through the nodes
    pc,           \* engine position: the node or router that runs next, "END", "raised"
    decision,     \* last value returned by a routing function ("none" before any)
    researchRuns, \* number of research_node executions so far in this run
    bnode,        \* task-level view: the node whose body is executing ("none" outside)
    bphase,       \* task-level view: position inside that node's body
    behaviour,    \* task-level view: what each started task did ("pending" while running)
    results,      \* task-level view: the slots of the pending asyncio.gather
    outOfOrder,   \* task-level view: some task settled before a task declared earlier
    local,        \* task-level view: the node's local outputs / errors lists and risk inputs
    delta,        \* task-level view: the delta the node returned (NoDelta before)
    abandoned     \* task-level view: tasks timed out whose backend call is still running

vars == <<state, pc, decision, researchRuns, bnode, bphase, behaviour, results,
          outOfOrder, local, delta, abandoned>>

engineVars == <<state, pc, decision, researchRuns>>
batchVars  == <<bnode, bphase, behaviour, results, outOfOrder, local, delta, abandoned>>

-----------------------------------------------------------------------------
(* Bounds of the model *)

MaxResearchRuns == 4    \* research_node executions explored in one run
MaxLen == 5             \* longest research_outputs list given to the routing function
MaxRetryCount == 3      \* largest retry_count given to the routing function
MaxLookupLen == 4       \* longest outputs list given to _get_agent_output
MaxSegments == 3        \* most segments in a text given to parse_json_from_output

-----------------------------------------------------------------------------
(* Program constants *)

RetryLimit == 2             \* the literal 2 of check_research_completeness
ProfilerTimeout == 90       \* timeout_seconds passed by run_company_profiler
DefaultTimeout == 60        \* run_agent's default timeout_seconds

None == <<>>
Some(x) == <<x>>

Get(d, k) == IF k \in DOMAIN d THEN d[k] ELSE None

GetOr(d, k, default) == IF k \in DOMAIN d THEN d[k] ELSE default

agent_names ==
    <<"company_profiler", "market_researcher", "competitor_scout",
      "team_investigator", "news_monitor">>

first_batch_names == <<"financial_analyst", "tech_evaluator", "legal_reviewer">>

analysis_names == first_batch_names \o <<"risk_assessor">>

-----------------------------------------------------------------------------
(* What the backend invocation of one task can do.                         *)
(*   "json"  : returns text that parses as JSON                            *)
(*   "prose" : returns text no parsing strategy accepts                    *)
(*   "error" : raises inside run_agent's try block                         *)
(*   "hangs" : does not return within timeout_seconds (later or never);    *)
(*             asyncio.wait_for raises TimeoutError                        *)
(*   "crash" : the agent coroutine itself raises (outside run_agent)       *)

Behaviours == {"json", "prose", "error", "hangs", "crash"}

ExceptionMessage == "backend unavailable"

(* An output text is a sequence of tokens: "{" and "}" are braces, "v" is  *)
(* a member ("key": value), "x" is prose and "F" is a code fence (```).    *)
(* json.loads accepts the empty object and the object with one member.     *)

JSONObject == <<"{", "v", "}">>

EmptyObject == <<"{", "}">>

Prose == <<"x">>

\* json.loads(text) succeeds
IsJSON(text) == text \in {EmptyObject, JSONObject}

\* the text a backend returns for behaviour b
TextOf(b) == IF b = "json" THEN JSONObject ELSE Prose

RawText(agent_name, b) == [by |-> agent_name, shape |-> b, text |-> TextOf(b)]

timeout_seconds(agent_name) ==
    IF agent_name = "company_profiler" THEN ProfilerTimeout ELSE DefaultTimeout

\* run_agent with error = None on the exception path (a lost error message)
run_agent_drops_error(agent_name, timeout, b) ==
    IF b \in {"json", "prose"}
    THEN [kind |-> "result", success |-> TRUE, output |-> None,
          raw_output |-> Some(RawText(agent_name, b)), error |-> None,
          agent_name |-> agent_name]
    ELSE [kind |-> "result", success |-> FALSE, output |-> None,
          raw_output |-> None, error |-> None, agent_name |-> agent_name]

\* run_agent: the AgentResult for an invocation behaving as b
run_agent(agent_name, timeout, b) ==
    CASE b \in {"json", "prose"} ->
            [kind |-> "result", success |-> TRUE, output |-> None,
             raw_output |-> Some(RawText(agent_name, b)), error |-> None,
             agent_name |-> agent_name]
      [] b = "hangs" ->
            [kind |-> "result", success |-> FALSE, output |-> None,
             raw_output |-> None,
             error |-> Some("Timeout after " \o ToString(timeout) \o "s"),
             agent_name |-> agent_name]
      [] OTHER ->
            [kind |-> "result", success |-> FALSE, output |-> None,
             raw_output |-> None, error |-> Some(ExceptionMessage),
             agent_name |-> agent_name]

\* the positions of the code fences of a text
FenceIdx(text) ==
    SelectSeq([i \in 1..Len(text) |-> i], LAMBDA i : text[i] = "F")

\* re.findall of the fenced-block pattern: the regions between the 1st and
\* 2nd fence, the 3rd and 4th, ... (non-greedy, non-overlapping, in order)
Blocks(text) ==
    LET f == FenceIdx(text)
    IN  [k \in 1..(Len(f) \div 2) |-> SubSeq(text, f[2 * k - 1] + 1, f[2 * k] - 1)]

Parsed(text) == Some([json |-> text])

\* the loop over the fenced blocks keeping the last one that parses
RECURSIVE last_block_parse(_, _)
last_block_parse(blocks, k) ==
    IF k > Len(blocks) THEN None
    ELSE LET later == last_block_parse(blocks, k + 1)
         IN  IF later # None THEN later
             ELSE IF IsJSON(blocks[k]) THEN Parsed(blocks[k]) ELSE None

\* the loop over the fenced blocks: the first one that parses is returned
RECURSIVE first_block_parse(_, _)
first_block_parse(blocks, k) ==
    IF k > Len(blocks) THEN None
    ELSE IF IsJSON(blocks[k]) THEN Parsed(blocks[k])
    ELSE first_block_parse(blocks, k + 1)

\* output[start_idx:end_idx + 1] for the first "{" and the last "}", when
\* both exist with end_idx > start_idx and the substring parses
braces_parse(text) ==
    LET opens == {i \in 1..Len(text) : text[i] = "{"}
        closes == {i \in 1..Len(text) : text[i] = "}"}
    IN  IF opens = {} \/ closes = {} THEN None
        ELSE LET start_idx == CHOOSE i \in opens : \A j \in opens : i <= j
                 end_idx == CHOOSE i \in closes : \A j \in closes : i >= j
             IN  IF end_idx > start_idx /\ IsJSON(SubSeq(text, start_idx, end_idx))
                 THEN Parsed(SubSeq(text, start_idx, end_idx))
                 ELSE None

\* parse_json_from_output: the parsed payload, or None when nothing parses
parse_json_from_output(output) ==
    IF output = None \/ output[1].text = <<>> THEN None
    ELSE LET text == output[1].text
             from_block == first_block_parse(Blocks(text), 1)
         IN  IF IsJSON(text) THEN Parsed(text)
             ELSE IF from_block # None THEN from_block
             ELSE braces_parse(text)

\* Python truth of a parsed payload: an empty dict is falsy
Truthy(parsed) == parsed # None /\ parsed[1].json # EmptyObject

\* run_company_profiler after run_agent returned: a best-effort parse of a
\* successful result's non-empty raw output
with_parsed_output(result) ==
    IF result.success /\ result.raw_output # None /\ result.raw_output[1].text # <<>>
    THEN LET parsed == parse_json_from_output(result.raw_output)
         IN  IF Truthy(parsed) THEN [result EXCEPT !.output = parsed] ELSE result
    ELSE result

\* run_company_profiler: run_agent, then the parse.  The other agent functions
\* are taken to have the same shape, with run_agent's default timeout.
run_task(agent_name, b) ==
    IF b = "crash"
    THEN [kind |-> "exception", msg |-> ExceptionMessage, agent_name |-> agent_name]
    ELSE with_parsed_output(run_agent(agent_name, timeout_seconds(agent_name), b))

IsException(r) == r.kind = "exception"

\* asyncio.wait_for(execute(), timeout) gives up on an invocation behaving as b
TimesOut(b) == b = "hangs"

\* a late value of an abandoned invocation written into the task's settled slot
late_return_overwrites(slots, i) ==
    IF i \in DOMAIN slots
    THEN [slots EXCEPT ![i] = [@ EXCEPT !.success = TRUE, !.error = None]]
    ELSE slots

\* what the return of an abandoned invocation does to the gathered slots:
\* execute() was cancelled at its await, its assignment to output_text and
\* its return never run, and the AgentResult of the timeout branch stays
late_return(slots, i) == slots

-----------------------------------------------------------------------------
(* asyncio.gather with return_exceptions=True: one slot per awaitable,     *)
(* in the order the awaitables were passed; a task that settles stores its *)
(* result (or its exception) in its own slot.                              *)

Pending == [kind |-> "pending"]

EmptySlots(n) == [i \in 1..n |-> Pending]

FirstPending(slots) ==
    CHOOSE i \in 1..Len(slots) :
        /\ slots[i] = Pending
        /\ \A j \in 1..(i - 1) : slots[j] # Pending

\* a gather that hands results back in completion order
gather_store_by_completion(slots, i, r) ==
    [slots EXCEPT ![FirstPending(slots)] = r]

gather_store(slots, i, r) == [slots EXCEPT ![i] = r]

AllSettled(slots) == \A i \in 1..Len(slots) : slots[i] # Pending

\* the gathered list for tasks named by names behaving as bs (a sequence)
gather(names, bs) == [i \in 1..Len(names) |-> run_task(names[i], bs[i])]

-----------------------------------------------------------------------------
(* The loop of research_node / analysis_node over the gathered results.    *)

FailedEntry(agent_name, err) ==
    [agent |-> agent_name, output |-> None, success |-> FALSE, error |-> err]

SuccessEntry(agent_name, result) ==
    [agent |-> agent_name, output |-> result.output,
     raw_output |-> result.raw_output, success |-> TRUE]

Str(opt) == IF opt = None THEN "None" ELSE opt[1]

\* the output entry recorded for one gathered result
entry_of(agent_name, result) ==
    IF IsException(result) THEN FailedEntry(agent_name, Some(result.msg))
    ELSE IF ~result.success THEN FailedEntry(agent_name, result.error)
    ELSE SuccessEntry(agent_name, result)

\* a loop that reports raised exceptions only, not results with success False
errors_of_only_exceptions(agent_name, result) ==
    IF IsException(result) THEN <<agent_name \o ": " \o result.msg>> ELSE <<>>

\* the error strings appended for one gathered result
errors_of(agent_name, result) ==
    IF IsException(result) THEN <<agent_name \o ": " \o result.msg>>
    ELSE IF ~result.success THEN <<agent_name \o ": " \o Str(result.error)>>
    ELSE <<>>

RECURSIVE collect_errors(_, _, _)
collect_errors(names, gathered, i) ==
    IF i > Len(gathered) THEN <<>>
    ELSE errors_of(names[i], gathered[i]) \o collect_errors(names, gathered, i + 1)

\* a loop that skips results that are exceptions
collect_outputs_skipping_exceptions(names, gathered) ==
    LET kept == SelectSeq([i \in 1..Len(gathered) |-> i],
                          LAMBDA i : ~IsException(gathered[i]))
    IN  [k \in 1..Len(kept) |-> entry_of(names[kept[k]], gathered[kept[k]])]

\* a loop in which the first exception spoils every later result
collect_outputs_abort_on_exception(names, gathered) ==
    [i \in 1..Len(gathered) |->
        IF \E j \in 1..(i - 1) : IsException(gathered[j])
        THEN FailedEntry(names[i], Some(ExceptionMessage))
        ELSE entry_of(names[i], gathered[i])]

collect_outputs(names, gathered) ==
    [i \in 1..Len(gathered) |-> entry_of(names[i], gathered[i])]

\* the count with the test negated: the entries that did not succeed
SuccessCount_counts_failures(outputs) ==
    Cardinality({i \in 1..Len(outputs) : ~GetOr(outputs[i], "success", FALSE)})

\* sum(1 for r in research_outputs if r.get("success", False))
SuccessCount(outputs) ==
    Cardinality({i \in 1..Len(outputs) : GetOr(outputs[i], "success", FALSE)})

\* a task appending its own entry to the run state's list as it settles
task_writes_into_state(st, agent_name, result) ==
    IF \E i \in 1..Len(agent_names) : agent_names[i] = agent_name
    THEN [st EXCEPT !.research_outputs = Append(@, entry_of(agent_name, result))]
    ELSE [st EXCEPT !.analysis_outputs = Append(@, entry_of(agent_name, result))]

\* what a settling task does to the run state: the agent functions get the
\* startup's name, description and extracted outputs as arguments and return
\* an AgentResult; the node keeps the entries in lists local to its body, so
\* the state is left as it is
task_writes(st, agent_name, result) == st

\* the delta research_node returns for the gathered results
research_delta(gathered) ==
    [research_outputs |-> collect_outputs(agent_names, gathered),
     errors |-> collect_errors(agent_names, gathered, 1),
     current_stage |-> "research_complete"]

-----------------------------------------------------------------------------
(* DueDiligenceState and its reducers.                                     *)

\* create_initial_state
create_initial_state(startup_name, startup_description) ==
    [startup_name |-> startup_name,
     startup_description |-> startup_description,
     funding_stage |-> None,
     research_outputs |-> <<>>,
     analysis_outputs |-> <<>>,
     full_report |-> None,
     investment_decision |-> None,
     current_stage |-> "init",
     errors |-> <<>>,
     retry_count |-> 0]

\* the keys declared Annotated[List, add]: a delta's list is appended
AddKeys == {"research_outputs", "analysis_outputs", "errors"}

\* a merge without reducers: every key of the delta replaces the state's value
Merge_overwriting(st, d) ==
    [k \in DOMAIN st |-> IF k \notin DOMAIN d THEN st[k] ELSE d[k]]

\* the state after a node's delta d is merged into st
Merge(st, d) ==
    [k \in DOMAIN st |->
        IF k \notin DOMAIN d THEN st[k]
        ELSE IF k \in AddKeys THEN st[k] \o d[k]
        ELSE d[k]]

-----------------------------------------------------------------------------
(* Node bodies as functions from the state (and the tasks' behaviour) to   *)
(* the delta they return.                                                  *)

init_delta(st) == [current_stage |-> "init_complete"]

\* validate_research_node flagging a ratio of exactly one half as well
validate_delta_inclusive(st) ==
    LET success_count == SuccessCount(st.research_outputs)
        total_count == Len(st.research_outputs)
    IN  [current_stage |-> "research_validated",
         errors |->
            IF total_count > 0 /\ 2 * success_count <= total_count
            THEN <<"CRITICAL: Only " \o ToString(success_count) \o "/"
                   \o ToString(total_count) \o " research agents succeeded">>
            ELSE <<>>]

\* validate_research_node handing the list it read back in its delta
validate_delta_returns_outputs(st) ==
    LET success_count == SuccessCount(st.research_outputs)
        total_count == Len(st.research_outputs)
    IN  [current_stage |-> "research_validated",
         research_outputs |-> st.research_outputs,
         errors |->
            IF total_count > 0 /\ 2 * success_count < total_count
            THEN <<"CRITICAL: Only " \o ToString(success_count) \o "/"
                   \o ToString(total_count) \o " research agents succeeded">>
            ELSE <<>>]

\* validate_research_node returning its errors without the stage marker
validate_delta_keeps_stage(st) ==
    LET success_count == SuccessCount(st.research_outputs)
        total_count == Len(st.research_outputs)
    IN  [errors |->
            IF total_count > 0 /\ 2 * success_count < total_count
            THEN <<"CRITICAL: Only " \o ToString(success_count) \o "/"
                   \o ToString(total_count) \o " research agents succeeded">>
            ELSE <<>>]

\* validate_research_node
validate_delta(st) ==
    LET research_outputs == st.research_outputs
        success_count == SuccessCount(research_outputs)
        total_count == Len(research_outputs)
    IN  [current_stage |-> "research_validated",
         errors |->
            IF total_count > 0 /\ 2 * success_count < total_count
            THEN <<"CRITICAL: Only " \o ToString(success_count) \o "/"
                   \o ToString(total_count) \o " research agents succeeded">>
            ELSE <<>>]

synthesis_delta(st) ==
    [full_report |-> Some("Stub report"),
     investment_decision |-> Some([recommendation |-> "hold"]),
     current_stage |-> "synthesis_complete"]

output_delta(st) == [current_stage |-> "complete"]

\* a lookup that takes the first entry of the name, successful or not
RECURSIVE get_agent_output_from_any(_, _, _)
get_agent_output_from_any(outputs, agent_name, i) ==
    IF i > Len(outputs) THEN None
    ELSE IF GetOr(outputs[i], "agent", "") = agent_name
         THEN Get(outputs[i], "output")
         ELSE get_agent_output_from_any(outputs, agent_name, i + 1)

\* _get_agent_output
RECURSIVE get_agent_output_from(_, _, _)
get_agent_output_from(outputs, agent_name, i) ==
    IF i > Len(outputs) THEN None
    ELSE IF GetOr(outputs[i], "agent", "") = agent_name
            /\ GetOr(outputs[i], "success", FALSE)
         THEN Get(outputs[i], "output")
         ELSE get_agent_output_from(outputs, agent_name, i + 1)

-----------------------------------------------------------------------------
(* Routing functions.                                                      *)

ContainsRequired(e) == e \in {"startup_name is required", "startup_description is required"}

check_init_success(st) ==
    IF \E i \in 1..Len(st.errors) : ContainsRequired(st.errors[i])
    THEN "failed" ELSE "success"

\* the threshold test with > in place of >=
check_research_completeness_strict(st) ==
    IF st.research_outputs = <<>>
    THEN IF st.retry_count < RetryLimit THEN "incomplete" ELSE "failed"
    ELSE IF 2 * SuccessCount(st.research_outputs) > Len(st.research_outputs)
         THEN "complete"
         ELSE IF st.retry_count < RetryLimit THEN "incomplete" ELSE "complete"

\* the empty-list test retrying one more time (<= in place of <)
check_research_completeness_retry_more(st) ==
    IF st.research_outputs = <<>>
    THEN IF st.retry_count <= RetryLimit THEN "incomplete" ELSE "failed"
    ELSE IF 2 * SuccessCount(st.research_outputs) >= Len(st.research_outputs)
         THEN "complete"
         ELSE IF st.retry_count < RetryLimit THEN "incomplete" ELSE "complete"

\* retries exhausted below the threshold aborting instead of proceeding
check_research_completeness_abort(st) ==
    IF st.research_outputs = <<>>
    THEN IF st.retry_count < RetryLimit THEN "incomplete" ELSE "failed"
    ELSE IF 2 * SuccessCount(st.research_outputs) >= Len(st.research_outputs)
         THEN "complete"
         ELSE IF st.retry_count < RetryLimit THEN "incomplete" ELSE "failed"

\* a list without any success treated like an empty one
check_research_completeness_fails_on_zero(st) ==
    IF st.research_outputs = <<>> \/ SuccessCount(st.research_outputs) = 0
    THEN IF st.retry_count < RetryLimit THEN "incomplete" ELSE "failed"
    ELSE IF 2 * SuccessCount(st.research_outputs) >= Len(st.research_outputs)
         THEN "complete"
         ELSE IF st.retry_count < RetryLimit THEN "incomplete" ELSE "complete"

\* the ratio taken over the latest attempt's five entries only
check_research_completeness_last_attempt(st) ==
    LET all == st.research_outputs
        research_outputs ==
            IF Len(all) > Len(agent_names)
            THEN SubSeq(all, Len(all) - Len(agent_names) + 1, Len(all))
            ELSE all
    IN  IF research_outputs = <<>>
        THEN IF st.retry_count < RetryLimit THEN "incomplete" ELSE "failed"
        ELSE IF 2 * SuccessCount(research_outputs) >= Len(research_outputs)
             THEN "complete"
             ELSE IF st.retry_count < RetryLimit THEN "incomplete" ELSE "complete"

check_research_completeness(st) ==
    LET research_outputs == st.research_outputs
        retry_count == st.retry_count
        success_count == SuccessCount(research_outputs)
        total_count == Len(research_outputs)
    IN  IF research_outputs = <<>>
        THEN IF retry_count < RetryLimit THEN "incomplete" ELSE "failed"
        ELSE IF total_count = 0 THEN "failed"
        ELSE IF 2 * success_count >= total_count THEN "complete"
        ELSE IF retry_count < RetryLimit THEN "incomplete"
        ELSE "complete"

-----------------------------------------------------------------------------
(* analysis_node: first batch gathered, then risk_assessor awaited alone.  *)

\* the entry appended for risk_assessor's result (a returned AgentResult)
risk_entry(risk_result) ==
    IF IsException(risk_result) \/ ~risk_result.success
    THEN FailedEntry("risk_assessor",
                     IF IsException(risk_result) THEN Some(risk_result.msg)
                     ELSE risk_result.error)
    ELSE SuccessEntry("risk_assessor", risk_result)

risk_errors(risk_result) ==
    IF IsException(risk_result) \/ ~risk_result.success
    THEN <<"risk_assessor: " \o
             (IF IsException(risk_result) THEN risk_result.msg
              ELSE Str(risk_result.error))>>
    ELSE <<>>

\* the delta analysis_node returns once risk_assessor has returned a result
analysis_delta(first_batch, risk_result) ==
    [analysis_outputs |->
        Append(collect_outputs(first_batch_names, first_batch), risk_entry(risk_result)),
     errors |-> collect_errors(first_batch_names, first_batch, 1) \o risk_errors(risk_result),
     current_stage |-> "analysis_complete"]

\* risk_assessor called with the state's analysis_outputs (still empty while
\* analysis_node runs) in place of the node's local list
risk_inputs_from_state(st, analysis_outputs) ==
    [research_outputs |-> st.research_outputs,
     analysis_outputs |-> st.analysis_outputs,
     startup_name |-> st.startup_name]

\* the keyword arguments of the run_risk_assessor call
risk_inputs(st, analysis_outputs) ==
    [research_outputs |-> st.research_outputs,
     analysis_outputs |-> analysis_outputs,
     startup_name |-> st.startup_name]

\* awaiting a coroutine that raises re-raises in the awaiting node
AwaitRaises(result) == IsException(result)

-----------------------------------------------------------------------------
(* The workflow engine: one node per step, its delta merged on return.     *)
(* The graph runs init, research, validate_research, analysis, synthesis   *)
(* and output in sequence, with a conditional edge after init and after    *)
(* validate_research.  A conditional edge evaluates its routing function   *)
(* and selects the next node; the state changes only by the deltas the     *)
(* nodes return.                                                           *)

NoDelta == [none |-> TRUE]

Inputs ==
    {<<"Acme", "An AI-powered platform">>, <<"", "An AI-powered platform">>, <<"Acme", "">>}

Terminal(st) == st.current_stage \in {"complete", "partial", "failed"}

\* the behaviours of the five research tasks tried in an engine run:
\* the first n tasks misbehave in the same way, the others return JSON
ResearchAttempts ==
    {[i \in 1..Len(agent_names) |-> IF i <= n THEN bad ELSE "json"] :
        n \in 0..Len(agent_names), bad \in {"error", "crash"}}

FirstBatchAttempts ==
    {[i \in 1..Len(first_batch_names) |-> IF i <= n THEN bad ELSE "json"] :
        n \in 0..Len(first_batch_names), bad \in {"hangs", "crash"}}

RiskAttempts == {"json", "error", "crash"}

BatchIdle ==
    /\ bnode = "none"
    /\ bphase = "idle"
    /\ behaviour = <<>>
    /\ results = <<>>
    /\ outOfOrder = FALSE
    /\ local = [outputs |-> <<>>, errors |-> <<>>]
    /\ delta = NoDelta
    /\ abandoned = {}

Init ==
    /\ \E in \in Inputs : state = create_initial_state(in[1], in[2])
    /\ pc = "init"
    /\ decision = "none"
    /\ researchRuns = 0
    /\ BatchIdle

\* where the graph goes after check_init_success; a run routed to "failed"
\* ends there, with the state the last node left
init_edges(d) == IF d = "success" THEN "research" ELSE "END"

\* where the graph goes after check_research_completeness
research_edges(d) ==
    CASE d = "complete" -> "analysis"
      [] d = "incomplete" -> "research"
      [] OTHER -> "END"

init_node ==
    /\ pc = "init"
    /\ state' = Merge(state, init_delta(state))
    /\ pc' = "check_init"
    /\ UNCHANGED <<decision, researchRuns>>
    /\ UNCHANGED batchVars

route_init ==
    /\ pc = "check_init"
    /\ decision' = check_init_success(state)
    /\ pc' = init_edges(decision')
    /\ UNCHANGED <<state, researchRuns>>
    /\ UNCHANGED batchVars

research_node ==
    /\ pc = "research"
    /\ researchRuns < MaxResearchRuns
    /\ \E bs \in ResearchAttempts :
          state' = Merge(state, research_delta(gather(agent_names, bs)))
    /\ researchRuns' = researchRuns + 1
    /\ pc' = "validate_research"
    /\ UNCHANGED decision
    /\ UNCHANGED batchVars

validate_research_node ==
    /\ pc = "validate_research"
    /\ state' = Merge(state, validate_delta(state))
    /\ pc' = "check_research"
    /\ UNCHANGED <<decision, researchRuns>>
    /\ UNCHANGED batchVars

\* the conditional edge after validation: the routing function only picks
\* the next node; no node delta writes retry_count
route_research ==
    /\ pc = "check_research"
    /\ decision' = check_research_completeness(state)
    /\ pc' = research_edges(decision')
    /\ UNCHANGED <<state, researchRuns>>
    /\ UNCHANGED batchVars

analysis_node ==
    /\ pc = "analysis"
    /\ \E bs \in FirstBatchAttempts, rb \in RiskAttempts :
          LET first_batch == gather(first_batch_names, bs)
              risk_result == run_task("risk_assessor", rb)
          IN  IF AwaitRaises(risk_result)
              THEN /\ pc' = "raised"
                   /\ state' = state
              ELSE /\ pc' = "synthesis"
                   /\ state' = Merge(state, analysis_delta(first_batch, risk_result))
    /\ UNCHANGED <<decision, researchRuns>>
    /\ UNCHANGED batchVars

synthesis_node ==
    /\ pc = "synthesis"
    /\ state' = Merge(state, synthesis_delta(state))
    /\ pc' = "output"
    /\ UNCHANGED <<decision, researchRuns>>
    /\ UNCHANGED batchVars

output_node ==
    /\ pc = "output"
    /\ state' = Merge(state, output_delta(state))
    /\ pc' = "END"
    /\ UNCHANGED <<decision, researchRuns>>
    /\ UNCHANGED batchVars

Next ==
    \/ init_node
    \/ route_init
    \/ research_node
    \/ validate_research_node
    \/ route_research
    \/ analysis_node
    \/ synthesis_node
    \/ output_node

Spec == Init /\ [][Next]_vars

\* every awaited node returns or raises, so the engine always takes its next step
FairSpec == Spec /\ WF_vars(Next)

-----------------------------------------------------------------------------
(* The routing function on arbitrary inputs: every research_outputs list   *)
(* of up to MaxLen entries with every retry_count up to MaxRetryCount.     *)

RECURSIVE EntryLists(_)
EntryLists(n) ==
    IF n = 0 THEN {<<>>}
    ELSE LET shorter == EntryLists(n - 1)
             name == agent_names[((n - 1) % Len(agent_names)) + 1]
         IN  shorter \cup
             {Append(l, entry_of(name, run_task(name, b))) :
                 l \in {x \in shorter : Len(x) = n - 1}, b \in {"json", "error"}}

RouteInit ==
    /\ \E outs \in EntryLists(MaxLen), rc \in 0..MaxRetryCount :
          state = [create_initial_state("Acme", "An AI-powered platform")
                      EXCEPT !.research_outputs = outs,
                             !.retry_count = rc,
                             !.current_stage = "research_validated"]
    /\ pc = "check_research"
    /\ decision = "none"
    /\ researchRuns = 0
    /\ BatchIdle

RouteNext == route_research

RouteSpec == RouteInit /\ [][RouteNext]_vars

-----------------------------------------------------------------------------
(* validate_research_node on arbitrary inputs: every research_outputs list *)
(* of up to MaxLen entries (the empty one included), every retry_count up  *)
(* to MaxRetryCount, with and without errors recorded before.              *)

ValidateInit ==
    /\ \E outs \in EntryLists(MaxLen), rc \in 0..MaxRetryCount,
          errs \in {<<>>, <<"company_profiler: " \o ExceptionMessage>>} :
          state = [create_initial_state("Acme", "An AI-powered platform")
                      EXCEPT !.research_outputs = outs,
                             !.retry_count = rc,
                             !.errors = errs,
                             !.current_stage = "research_complete"]
    /\ pc = "validate_research"
    /\ decision = "none"
    /\ researchRuns = 0
    /\ BatchIdle

ValidateNext == validate_research_node

ValidateSpec == ValidateInit /\ [][ValidateNext]_vars

-----------------------------------------------------------------------------
(* _get_agent_output on arbitrary inputs: every list of up to MaxLookupLen *)
(* entries recorded for two task names, each entry failed, successful with *)
(* no parsed output, or successful with a parsed output that tells the     *)
(* attempts apart; looked up by the names analysis_node asks for.          *)

ListedNames == {"company_profiler", "market_researcher"}

LookedUpNames == {"company_profiler", "market_researcher", "team_investigator"}

\* the entry recorded at position k for a task that behaved as b
LookupEntry(name, b, k) ==
    LET e == entry_of(name, run_task(name, b))
    IN  IF e.success /\ e.output # None
        THEN [e EXCEPT !.output = Some([attempt |-> k, payload |-> e.output[1]])]
        ELSE e

RECURSIVE LookupLists(_)
LookupLists(n) ==
    IF n = 0 THEN {<<>>}
    ELSE LET shorter == LookupLists(n - 1)
         IN  shorter \cup
             {Append(l, LookupEntry(name, b, n)) :
                 l \in {x \in shorter : Len(x) = n - 1},
                 name \in ListedNames, b \in {"json", "prose", "error"}}

LookupInit ==
    /\ \E outs \in LookupLists(MaxLookupLen) :
          state = [create_initial_state("Acme", "An AI-powered platform")
                      EXCEPT !.research_outputs = outs,
                             !.current_stage = "research_validated"]
    /\ pc = "lookup"
    /\ decision = "none"
    /\ researchRuns = 0
    /\ bnode = "none"
    /\ bphase = "idle"
    /\ behaviour = <<>>
    /\ results = <<>>
    /\ outOfOrder = FALSE
    /\ local = [outputs |-> <<>>, errors |-> <<>>, name |-> "", found |-> None]
    /\ delta = NoDelta
    /\ abandoned = {}

\* one call _get_agent_output(research_outputs, agent_name)
lookup(agent_name) ==
    /\ pc = "lookup"
    /\ local' = [local EXCEPT
                    !.name = agent_name,
                    !.found = get_agent_output_from(state.research_outputs, agent_name, 1)]
    /\ pc' = "looked"
    /\ UNCHANGED <<state, decision, researchRuns>>
    /\ UNCHANGED <<bnode, bphase, behaviour, results, outOfOrder, delta, abandoned>>

LookupNext == \E agent_name \in LookedUpNames : lookup(agent_name)

LookupSpec == LookupInit /\ [][LookupNext]_vars

-----------------------------------------------------------------------------
(* The parse step of an agent function on arbitrary texts: every text of   *)
(* up to MaxSegments segments, a segment being prose, an object, an empty  *)
(* object, one of these inside code fences, or a stray fence or brace.     *)

Fenced(text) == <<"F">> \o text \o <<"F">>

Segments ==
    {Prose, JSONObject, EmptyObject,
     Fenced(Prose), Fenced(JSONObject), Fenced(EmptyObject),
     <<"F">>, <<"{">>, <<"}">>}

RECURSIVE Texts(_)
Texts(n) ==
    IF n = 0 THEN {<<>>}
    ELSE LET shorter == Texts(n - 1)
         IN  shorter \cup {t \o seg : t \in shorter, seg \in Segments}

\* run_agent has returned a successful AgentResult with the backend's text
ParseInit ==
    /\ \E text \in Texts(MaxSegments) :
          LET raw == [by |-> "company_profiler", shape |-> "text", text |-> text]
          IN  /\ results = <<[kind |-> "result", success |-> TRUE, output |-> None,
                               raw_output |-> Some(raw), error |-> None,
                               agent_name |-> "company_profiler"]>>
              /\ local = [outputs |-> <<>>, errors |-> <<>>,
                          raw |-> raw, parsed |-> None]
    /\ state = create_initial_state("Acme", "An AI-powered platform")
    /\ pc = "parse"
    /\ decision = "none"
    /\ researchRuns = 0
    /\ bnode = "none"
    /\ bphase = "idle"
    /\ behaviour = <<>>
    /\ outOfOrder = FALSE
    /\ delta = NoDelta
    /\ abandoned = {}

\* the lines of run_company_profiler after run_agent: parse and return
parse_result ==
    /\ pc = "parse"
    /\ results' = <<with_parsed_output(results[1])>>
    /\ local' = [local EXCEPT !.parsed = parse_json_from_output(results[1].raw_output)]
    /\ pc' = "parsed"
    /\ UNCHANGED <<state, decision, researchRuns>>
    /\ UNCHANGED <<bnode, bphase, behaviour, outOfOrder, delta, abandoned>>

ParseNext == parse_result

ParseSpec == ParseInit /\ [][ParseNext]_vars

-----------------------------------------------------------------------------
(* One execution of a node body at task level: the tasks of a batch are    *)
(* started together, settle one by one in any order, and the node resumes  *)
(* when asyncio.gather has every slot filled.  The engine merges the       *)
(* returned delta afterwards.                                              *)

\* the state research_node is entered with
StateBeforeResearch == Merge(create_initial_state("Acme", "An AI-powered platform"),
                             init_delta(<<>>))

\* a state analysis_node is entered with: one research execution, validated
StateBeforeAnalysis(bs) ==
    LET researched == Merge(StateBeforeResearch, research_delta(gather(agent_names, bs)))
    IN  Merge(researched, validate_delta(researched))

BatchNames == IF bnode = "research" THEN agent_names ELSE first_batch_names

BatchInit ==
    /\ \/ /\ bnode = "research"
          /\ state = StateBeforeResearch
       \/ /\ bnode = "analysis"
          /\ \E bs \in ResearchAttempts :
                /\ state = StateBeforeAnalysis(bs)
                /\ check_research_completeness(state) = "complete"
    /\ pc = bnode
    /\ decision = "none"
    /\ researchRuns = 0
    /\ bphase = "entered"
    /\ behaviour = <<>>
    /\ results = <<>>
    /\ outOfOrder = FALSE
    /\ local = [outputs |-> <<>>, errors |-> <<>>]
    /\ delta = NoDelta
    /\ abandoned = {}

\* the node creates its coroutines and awaits asyncio.gather on all of them
start_gather ==
    /\ bphase = "entered"
    /\ bphase' = "gather"
    /\ behaviour' = [i \in 1..Len(BatchNames) |-> "pending"]
    /\ results' = EmptySlots(Len(BatchNames))
    /\ local' =
          IF bnode = "analysis"
          THEN [outputs |-> <<>>, errors |-> <<>>, risk_inputs |-> None,
                company_profile |->
                    get_agent_output_from(state.research_outputs, "company_profiler", 1),
                market_analysis |->
                    get_agent_output_from(state.research_outputs, "market_researcher", 1),
                team_analysis |->
                    get_agent_output_from(state.research_outputs, "team_investigator", 1)]
          ELSE local
    /\ UNCHANGED <<bnode, outOfOrder, delta, abandoned>>
    /\ UNCHANGED engineVars

\* task i of the batch settles, behaving as b
task_settles(i, b) ==
    /\ bphase = "gather"
    /\ behaviour[i] = "pending"
    /\ behaviour' = [behaviour EXCEPT ![i] = b]
    /\ results' = gather_store(results, i, run_task(BatchNames[i], b))
    /\ outOfOrder' = (outOfOrder \/ \E j \in 1..(i - 1) : behaviour[j] = "pending")
    /\ abandoned' = IF TimesOut(b) THEN abandoned \cup {i} ELSE abandoned
    /\ state' = task_writes(state, BatchNames[i], run_task(BatchNames[i], b))
    /\ UNCHANGED <<bnode, bphase, local, delta>>
    /\ UNCHANGED <<pc, decision, researchRuns>>

\* research_node from the return of gather to its return statement
research_collect ==
    /\ bnode = "research"
    /\ bphase = "gather"
    /\ AllSettled(results)
    /\ local' = [outputs |-> collect_outputs(agent_names, results),
                 errors |-> collect_errors(agent_names, results, 1)]
    /\ delta' = research_delta(results)
    /\ bphase' = "returned"
    /\ UNCHANGED <<bnode, behaviour, results, outOfOrder, abandoned>>
    /\ UNCHANGED engineVars

\* analysis_node from the return of gather to the await of run_risk_assessor,
\* which starts risk_assessor with the arguments kept in local.risk_inputs
analysis_collect_first ==
    /\ bnode = "analysis"
    /\ bphase = "gather"
    /\ AllSettled(results)
    /\ LET analysis_outputs == collect_outputs(first_batch_names, results)
       IN  local' = [local EXCEPT
                        !.outputs = analysis_outputs,
                        !.errors = collect_errors(first_batch_names, results, 1),
                        !.risk_inputs = Some(risk_inputs(state, analysis_outputs))]
    /\ bphase' = "risk"
    /\ UNCHANGED <<bnode, behaviour, results, outOfOrder, delta, abandoned>>
    /\ UNCHANGED engineVars

\* run_risk_assessor settles: analysis_node returns its delta, or the
\* exception of the awaited coroutine leaves analysis_node
risk_settles(b) ==
    /\ bnode = "analysis"
    /\ bphase = "risk"
    /\ behaviour' = Append(behaviour, b)
    /\ abandoned' = IF TimesOut(b) THEN abandoned \cup {Len(behaviour) + 1} ELSE abandoned
    /\ LET risk_result == run_task("risk_assessor", b)
       IN  IF AwaitRaises(risk_result)
           THEN /\ bphase' = "raised"
                /\ UNCHANGED <<local, delta>>
           ELSE /\ bphase' = "returned"
                /\ local' = [local EXCEPT
                                !.outputs = Append(@, risk_entry(risk_result)),
                                !.errors = @ \o risk_errors(risk_result)]
                /\ delta' = analysis_delta(results, risk_result)
    /\ state' = task_writes(state, "risk_assessor", run_task("risk_assessor", b))
    /\ UNCHANGED <<bnode, results, outOfOrder>>
    /\ UNCHANGED <<pc, decision, researchRuns>>

\* the engine merges the delta of the node that returned
merge_returned ==
    /\ bphase = "returned"
    /\ state' = Merge(state, delta)
    /\ pc' = IF bnode = "research" THEN "validate_research" ELSE "synthesis"
    /\ researchRuns' = IF bnode = "research" THEN researchRuns + 1 ELSE researchRuns
    /\ bphase' = "merged"
    /\ UNCHANGED decision
    /\ UNCHANGED <<bnode, behaviour, results, outOfOrder, local, delta, abandoned>>

\* the exception leaves the node: the run ends with it and nothing is merged
node_raises ==
    /\ bphase = "raised"
    /\ pc # "raised"
    /\ pc' = "raised"
    /\ UNCHANGED <<state, decision, researchRuns>>
    /\ UNCHANGED batchVars

\* the backend call of a timed-out task returns in its worker thread: the
\* execute() coroutine that awaited it was cancelled by asyncio.wait_for, so
\* nothing reads the value
abandoned_invocation_returns(i) ==
    /\ i \in abandoned
    /\ abandoned' = abandoned \ {i}
    /\ results' = late_return(results, i)
    /\ UNCHANGED <<bnode, bphase, behaviour, outOfOrder, local, delta>>
    /\ UNCHANGED engineVars

BatchNext ==
    \/ start_gather
    \/ \E i \in 1..Len(behaviour), b \in Behaviours : task_settles(i, b)
    \/ research_collect
    \/ analysis_collect_first
    \/ \E b \in Behaviours : risk_settles(b)
    \/ merge_returned
    \/ node_raises
    \/ \E i \in abandoned : abandoned_invocation_returns(i)

BatchSpec == BatchInit /\ [][BatchNext]_vars

-----------------------------------------------------------------------------
(* Claims about check_research_completeness (checked under RouteSpec).     *)

\* number of entries of a list flagged success, counted entry by entry
RECURSIVE Successes(_)
Successes(outputs) ==
    IF outputs = <<>> THEN 0
    ELSE (IF Head(outputs).success THEN 1 ELSE 0) + Successes(Tail(outputs))

Routed == decision \in {"complete", "incomplete", "failed"}

\* C1: for a non-empty list the decision is "complete" when successes/total >= 0.5;
\* below 0.5 it is "incomplete" while retry_count < 2 and "complete" from 2 on
\* (so 2 of 5 with retry_count < 2 is "incomplete" and 3 of 5 is "complete").
C1_ThresholdDecision ==
    (Routed /\ state.research_outputs # <<>>) =>
        LET succ == Successes(state.research_outputs)
            total == Len(state.research_outputs)
        IN  /\ (2 * succ >= total) => decision = "complete"
            /\ (2 * succ < total /\ state.retry_count < 2) => decision = "incomplete"
            /\ (2 * succ < total /\ state.retry_count >= 2) => decision = "complete"
            /\ (total = 5 /\ succ = 2 /\ state.retry_count < 2) => decision = "incomplete"
            /\ (total = 5 /\ succ = 3) => decision = "complete"

C1_Witness ==
    /\ decision = "incomplete"
    /\ Len(state.research_outputs) = 5
    /\ Successes(state.research_outputs) = 2
    /\ state.retry_count = 1

\* C2: for an empty list the decision is "incomplete" while retry_count < 2
\* and "failed" from 2 on.
C2_EmptyDecision ==
    (Routed /\ state.research_outputs = <<>>) =>
        /\ (state.retry_count < 2) => decision = "incomplete"
        /\ (state.retry_count >= 2) => decision = "failed"

C2_Witness ==
    /\ decision = "failed"
    /\ state.research_outputs = <<>>
    /\ state.retry_count = 2

RetryExhaustedCase ==
    /\ Routed
    /\ Len(state.research_outputs) = 5
    /\ Successes(state.research_outputs) = 0
    /\ state.retry_count = 2

\* C3 as stated: 5 results, 0 successes and retry_count = 2 give "failed".
C3_ExhaustionFails == RetryExhaustedCase => decision = "failed"

\* C3 as amended: 5 results, 0 successes and retry_count = 2 give "complete"
\* (the run proceeds in degraded mode); "failed" needs an empty list.
C3_ExhaustionProceeds ==
    /\ RetryExhaustedCase => decision = "complete"
    /\ (Routed /\ decision = "failed") => state.research_outputs = <<>>

C3_Witness == RetryExhaustedCase /\ decision = "complete"

-----------------------------------------------------------------------------
(* Claims about the retry loop (checked under Spec and FairSpec).          *)

C5_Terminates == <>Terminal(state)

-----------------------------------------------------------------------------
(* Claims about one node execution (checked under BatchSpec).              *)

Succeeded(b) == b \in {"json", "prose"}

Failed(b) == b \in {"error", "hangs", "crash"}

GatherReturned == bphase \in {"risk", "raised", "returned", "merged"}

NodeReturned == bphase \in {"returned", "merged"}

DeltaOutputs ==
    IF bnode = "research" THEN delta.research_outputs ELSE delta.analysis_outputs

MergedOutputs ==
    IF bnode = "research" THEN state.research_outputs ELSE state.analysis_outputs

DeclaredNames == IF bnode = "research" THEN agent_names ELSE analysis_names

\* entry i of outs is the record of the batch's task i: flagged as that task ended
RecordsBatch(outs) ==
    /\ Len(outs) >= Len(BatchNames)
    /\ \A i \in 1..Len(BatchNames) :
          /\ Succeeded(behaviour[i]) => outs[i].success = TRUE
          /\ Failed(behaviour[i]) => outs[i].success = FALSE

\* C6: whatever subset of a concurrent batch raises, reports failure or times
\* out, every task of the batch runs to completion, the ones that succeed are
\* recorded with success = true and the failing ones with success = false, in
\* the node's list and in the stage result it returns; no task of a batch
\* keeps the node from returning.
C6_Isolation ==
    /\ GatherReturned =>
          /\ \A i \in 1..Len(BatchNames) : behaviour[i] # "pending"
          /\ RecordsBatch(local.outputs)
    /\ NodeReturned => RecordsBatch(DeltaOutputs)
    /\ bphase = "merged" => RecordsBatch(MergedOutputs)
    /\ bphase = "raised" => (bnode = "analysis" /\ behaviour[4] = "crash")

C6_Witness ==
    /\ bphase = "merged"
    /\ \E i, j, k \in 1..Len(BatchNames) :
          /\ i < j
          /\ behaviour[i] = "crash"
          /\ behaviour[j] = "json"
          /\ behaviour[k] = "hangs"
          /\ MergedOutputs[j].success
          /\ ~MergedOutputs[i].success

\* C7: the stage result a node returns has one entry per declared task, 5 for
\* research_node and 4 for analysis_node, whatever the tasks did.
C7_OneEntryPerTask ==
    NodeReturned =>
        /\ bnode = "research" => Len(delta.research_outputs) = 5
        /\ bnode = "analysis" => Len(delta.analysis_outputs) = 4
        /\ bphase = "merged" => Len(MergedOutputs) = Len(DeclaredNames)

C7_Witness ==
    /\ bnode = "analysis"
    /\ bphase = "merged"
    /\ behaviour = <<"crash", "hangs", "error", "error">>
    /\ Len(state.analysis_outputs) = 4

\* C8 as stated: no node lets an exception out; every task failure, the
\* risk_assessor task raising included, ends as a returned delta.
C8_NothingRaises == bphase # "raised" /\ pc # "raised"

EntryWellFormed(e) ==
    /\ e.success <=> (Get(e, "error") = None)
    /\ ~e.success => e.output = None

AllWellFormed(outs) == \A i \in 1..Len(outs) : EntryWellFormed(outs[i])

\* C9: every AgentResult has success = true iff error is null and a null
\* output when success = false, and so has every entry the nodes record.
C9_ResultsWellFormed ==
    /\ \A i \in 1..Len(results) :
          results[i].kind = "result" =>
              /\ results[i].success <=> (results[i].error = None)
              /\ ~results[i].success => results[i].output = None
    /\ AllWellFormed(local.outputs)
    /\ NodeReturned => AllWellFormed(DeltaOutputs)
    /\ AllWellFormed(state.research_outputs)
    /\ AllWellFormed(state.analysis_outputs)

C9_Witness ==
    /\ bnode = "research"
    /\ bphase = "merged"
    /\ behaviour = <<"hangs", "json", "error", "crash", "prose">>
    /\ state.research_outputs[1].error = Some("Timeout after 90s")
    /\ state.research_outputs[2].output # None
    /\ state.research_outputs[5].output = None

\* entry e is the record of the task called name that behaved as b
MadeBy(e, name, b) ==
    /\ e.agent = name
    /\ e.success = Succeeded(b)
    /\ Succeeded(b) => e.raw_output = Some(RawText(name, b))
    /\ b = "hangs" => e.error = Some("Timeout after " \o ToString(timeout_seconds(name)) \o "s")

\* C10: the entries of a stage result are in declaration order, each the
\* record of the task declared at that position, in whatever order the tasks
\* of the batch completed.
C10_DeclarationOrder ==
    NodeReturned =>
        /\ Len(DeltaOutputs) = Len(DeclaredNames)
        /\ \A i \in 1..Len(DeltaOutputs) :
              MadeBy(DeltaOutputs[i], DeclaredNames[i], behaviour[i])

C10_Witness ==
    /\ NodeReturned
    /\ outOfOrder
    /\ bnode = "research"
    /\ behaviour = <<"json", "json", "hangs", "json", "prose">>

-----------------------------------------------------------------------------
(* Claims about the timeout of a task (checked under BatchSpec).           *)

TimeoutMessage(name) == Some("Timeout after " \o ToString(timeout_seconds(name)) \o "s")

\* the gathered slot of a task whose invocation did not return in time
TimedOutSlot(slot, name) ==
    /\ slot.kind = "result"
    /\ slot.success = FALSE
    /\ slot.output = None
    /\ slot.error = TimeoutMessage(name)

\* a step in which the backend call of an abandoned invocation returns
LateReturn == abandoned' # abandoned /\ abandoned' \subseteq abandoned

\* C11: a task whose invocation does not return yields, at the moment its
\* timeout elapses, a result with success = false and the error "Timeout
\* after Ns"; the slot is settled in that same step, so the batch does not
\* wait for the invocation, and the later return of the abandoned invocation
\* changes neither the gathered result, nor the node's lists and delta, nor
\* the run state.
C11_TimeoutSettles ==
    /\ [](\A i \in 1..Len(results) :
             behaviour[i] = "hangs" => TimedOutSlot(results[i], BatchNames[i]))
    /\ [](NodeReturned =>
             \A i \in 1..Len(DeltaOutputs) :
                 behaviour[i] = "hangs" =>
                     /\ DeltaOutputs[i].success = FALSE
                     /\ DeltaOutputs[i].error = TimeoutMessage(DeclaredNames[i]))
    /\ [][LateReturn => UNCHANGED <<results, local, delta, state, bphase, pc>>]_vars

\* the node returned and its delta was merged while one timed-out invocation
\* was still running and another had returned late
C11_Witness ==
    /\ bnode = "research"
    /\ bphase = "merged"
    /\ behaviour[1] = "hangs" /\ 1 \notin abandoned
    /\ behaviour[2] = "hangs" /\ 2 \in abandoned
    /\ state.research_outputs[1].error = Some("Timeout after 90s")
    /\ state.research_outputs[2].success = FALSE

-----------------------------------------------------------------------------
(* Claims about the failure paths of a run.                                *)

MissingInput(st) == st.startup_name = "" \/ st.startup_description = ""

\* C12 as stated (checked under Spec): a run with an empty startup name or
\* description is routed to "failed" by check_init_success right after
\* init_node and never executes research; a run with both inputs is routed
\* to "success".
C12_MissingInputFails ==
    /\ MissingInput(state) =>
          /\ pc \in {"init", "check_init", "END"}
          /\ researchRuns = 0
          /\ pc = "END" => decision = "failed"
    /\ (~MissingInput(state) /\ pc \notin {"init", "check_init"}) =>
          (decision # "failed" \/ researchRuns > 0)

-----------------------------------------------------------------------------
(* Claims about whole runs (checked under Spec).                           *)

IsPrefix(a, b) == Len(a) <= Len(b) /\ SubSeq(b, 1, Len(a)) = a

\* C14: the errors list is append-only over the whole run: in every step
\* (every node execution, every routing step, every retry of research) the
\* errors list before the step is a prefix of the errors list after it.
C14_ErrorsAppendOnly == [][IsPrefix(state.errors, state.errors')]_vars

\* a retried run: the errors of the first attempt and of its validation are
\* still there after the second attempt and its validation added theirs
C14_Witness ==
    /\ researchRuns = 2
    /\ pc = "check_research"
    /\ Len(state.errors) = 10
    /\ state.errors[4] = "CRITICAL: Only 2/5 research agents succeeded"
    /\ state.errors[10] = "CRITICAL: Only 2/10 research agents succeeded"

PerAttempt == Len(agent_names)

\* the entries the k-th execution of research_node added
Attempt(k) == SubSeq(state.research_outputs, PerAttempt * (k - 1) + 1, PerAttempt * k)

PastResearchRouting == pc \in {"analysis", "synthesis", "output", "END", "raised"}

\* the first execution of research_node ended with 2 of its 5 tasks failed
TwoFailedFirst ==
    /\ researchRuns >= 1
    /\ Successes(Attempt(1)) = PerAttempt - 2

\* C15 as stated: when 2 of the 5 research tasks fail on the first attempt,
\* the run goes past research only after exactly one retry, with
\* retry_count = 1, and ends at "complete".
C15_RetriedOnce ==
    (TwoFailedFirst /\ PastResearchRouting) =>
        /\ researchRuns = 2
        /\ state.retry_count = 1
        /\ pc = "END" => state.current_stage = "complete"

\* C15, amended: when 2 of the 5 research tasks fail on the first attempt,
\* 3/5 meets the threshold: the routing decision is "complete", research is
\* executed exactly once, research_outputs holds the 5 results of that one
\* attempt, retry_count is 0 and the run proceeds to analysis.
C15_NoRetryAtThreshold ==
    TwoFailedFirst =>
        /\ researchRuns = 1
        /\ state.research_outputs = Attempt(1)
        /\ state.retry_count = 0
        /\ pc \notin {"validate_research", "check_research"} =>
              (decision = "complete" /\ PastResearchRouting)
        /\ pc = "END" => state.current_stage = "complete"

C15_Witness ==
    /\ TwoFailedFirst
    /\ pc = "END"
    /\ ~state.research_outputs[1].success
    /\ ~state.research_outputs[2].success
    /\ Len(state.research_outputs) = PerAttempt
    /\ state.current_stage = "complete"

\* every task of the first research execution succeeded
AllSucceededFirst ==
    /\ researchRuns >= 1
    /\ Successes(Attempt(1)) = PerAttempt

AllAnalysisSucceeded ==
    /\ Len(state.analysis_outputs) = Len(analysis_names)
    /\ \A i \in 1..Len(analysis_names) : state.analysis_outputs[i].success

\* C16: when all 5 research tasks succeed, research is executed exactly once
\* (retry_count stays 0, the run never goes back to research), the research
\* result holds the 5 entries in declaration order, and current_stage is
\* research_complete after research, research_validated after validation and
\* through routing, analysis_complete after analysis; the errors list is
\* empty up to analysis, and stays empty when all analysis tasks succeed.
C16_SuccessScenario ==
    AllSucceededFirst =>
        /\ researchRuns = 1
        /\ pc # "research"
        /\ state.retry_count = 0
        /\ Len(state.research_outputs) = PerAttempt
        /\ \A i \in 1..PerAttempt :
              /\ state.research_outputs[i].agent = agent_names[i]
              /\ state.research_outputs[i].raw_output = Some(RawText(agent_names[i], "json"))
        /\ pc = "validate_research" => state.current_stage = "research_complete"
        /\ pc \in {"check_research", "analysis", "raised"} =>
              state.current_stage = "research_validated"
        /\ pc = "analysis" => decision = "complete"
        /\ pc \in {"validate_research", "check_research", "analysis", "raised"} =>
              state.errors = <<>>
        /\ pc = "synthesis" => state.current_stage = "analysis_complete"
        /\ (pc \in {"synthesis", "output", "END"} /\ AllAnalysisSucceeded) =>
              state.errors = <<>>

C16_Witness ==
    /\ AllSucceededFirst
    /\ AllAnalysisSucceeded
    /\ pc = "synthesis"
    /\ state.current_stage = "analysis_complete"
    /\ state.errors = <<>>
    /\ state.research_outputs[5].agent = "news_monitor"

-----------------------------------------------------------------------------
(* Claims about the stages of a node execution (checked under BatchSpec).  *)

RiskStarted == bnode = "analysis" /\ bphase \in {"risk", "raised", "returned", "merged"}

\* C17: risk_assessor is started only after financial_analyst,
\* tech_evaluator and legal_reviewer have all settled (returned a result,
\* failed, timed out or raised), and it is called with an analysis_outputs
\* list of exactly three entries, the records of those three tasks in
\* declaration order, and with the run's accumulated research_outputs;
\* before that point it has not been started.
C17_RiskAfterFirstBatch ==
    /\ RiskStarted =>
          /\ \A i \in 1..Len(first_batch_names) : behaviour[i] # "pending"
          /\ AllSettled(results)
          /\ local.risk_inputs # None
          /\ LET args == local.risk_inputs[1]
             IN  /\ Len(args.analysis_outputs) = Len(first_batch_names)
                 /\ \A i \in 1..Len(first_batch_names) :
                       MadeBy(args.analysis_outputs[i], first_batch_names[i], behaviour[i])
                 /\ args.research_outputs = state.research_outputs
                 /\ Len(args.research_outputs) = Len(agent_names)
    /\ (bnode = "analysis" /\ bphase = "gather") =>
          /\ local.risk_inputs = None
          /\ Len(behaviour) = Len(first_batch_names)

C17_Witness ==
    /\ bnode = "analysis"
    /\ bphase = "risk"
    /\ outOfOrder
    /\ behaviour = <<"crash", "json", "hangs">>
    /\ Len(local.risk_inputs[1].analysis_outputs) = 3
    /\ local.risk_inputs[1].analysis_outputs[2].success
    /\ \E i \in 1..Len(state.research_outputs) : ~state.research_outputs[i].success

-----------------------------------------------------------------------------
(* Claims about retried runs and the validation node (checked under Spec). *)

BelowThreshold(outs) == 2 * Successes(outs) < Len(outs)

CriticalError(outs) ==
    "CRITICAL: Only " \o ToString(Successes(outs)) \o "/" \o ToString(Len(outs))
        \o " research agents succeeded"

\* C18: after the k-th execution of research_node research_outputs has
\* exactly 5 * k entries; no step changes or removes an entry already there
\* (the earlier list is a prefix of the later one); and the ratio validation
\* reports and the ratio routing decides by are those of the whole
\* accumulated list.
C18_Accumulates ==
    /\ [](Len(state.research_outputs) = PerAttempt * researchRuns)
    /\ [][IsPrefix(state.research_outputs, state.research_outputs')]_vars
    /\ []((pc = "check_research" /\ BelowThreshold(state.research_outputs)) =>
             state.errors[Len(state.errors)] = CriticalError(state.research_outputs))
    /\ [](pc = "analysis" => ~BelowThreshold(state.research_outputs))
    /\ []((pc = "research" /\ researchRuns > 0) => BelowThreshold(state.research_outputs))

\* a second attempt that by itself meets the threshold (3 of 5) does not end
\* the retries, because the accumulated list (3 of 10) does not
C18_Witness ==
    /\ researchRuns = 2
    /\ pc = "research"
    /\ decision = "incomplete"
    /\ Len(state.research_outputs) = 2 * PerAttempt
    /\ Successes(Attempt(1)) = 0
    /\ Successes(Attempt(2)) = 3
    /\ state.errors[Len(state.errors)] = "CRITICAL: Only 3/10 research agents succeeded"

-----------------------------------------------------------------------------
(* Claims about when the run state changes (checked under BatchSpec).      *)

NodeRunning == bphase \in {"entered", "gather", "risk", "raised", "returned"}

\* C19: the run state changes only in the step that merges the delta a node
\* returned, after all its tasks settled; while the tasks of research or
\* analysis run and settle, research_outputs, analysis_outputs, errors and
\* current_stage are as they were when the node was entered, and once merged
\* the node's list holds the whole batch: no state holds part of a batch.
C19_StateChangesByMerge ==
    /\ [][state' # state =>
            /\ bphase = "returned" /\ bphase' = "merged"
            /\ \A i \in 1..Len(behaviour) : behaviour[i] # "pending"
            /\ state' = Merge(state, delta)]_vars
    /\ []((NodeRunning /\ bnode = "research") =>
            /\ state.research_outputs = <<>>
            /\ state.errors = <<>>
            /\ state.current_stage = "init_complete")
    /\ []((NodeRunning /\ bnode = "analysis") =>
            /\ state.analysis_outputs = <<>>
            /\ Len(state.research_outputs) = Len(agent_names)
            /\ state.current_stage = "research_validated")
    /\ [](Len(MergedOutputs) \in {0, Len(DeclaredNames)})

\* two research tasks have settled, one with an error, three still run:
\* nothing of them is in the run state
C19_Witness ==
    /\ bnode = "research"
    /\ bphase = "gather"
    /\ behaviour = <<"pending", "json", "pending", "error", "pending">>
    /\ results[2].success
    /\ state.research_outputs = <<>>
    /\ state.errors = <<>>
    /\ state.current_stage = "init_complete"

-----------------------------------------------------------------------------
(* Claims about validate_research_node (checked under ValidateSpec).       *)

FrameKeys == {"current_stage", "errors"}

\* C20: a step of validate_research_node starts no task and changes only
\* current_stage, which becomes research_validated, and errors:
\* research_outputs, analysis_outputs, retry_count, the inputs and every
\* other key stay as they were; errors gains exactly one CRITICAL message
\* when research_outputs is non-empty with successes/total < 0.5 and gains
\* nothing otherwise (an empty list included).
C20_ValidateFrame ==
    [][pc = "validate_research" =>
          /\ state'.current_stage = "research_validated"
          /\ DOMAIN state' = DOMAIN state
          /\ \A k \in DOMAIN state \ FrameKeys : state'[k] = state[k]
          /\ state'.errors =
                state.errors \o
                    (IF state.research_outputs # <<>> /\ BelowThreshold(state.research_outputs)
                     THEN <<CriticalError(state.research_outputs)>>
                     ELSE <<>>)
          /\ UNCHANGED <<researchRuns, batchVars>>]_vars

\* validation has run on a list of 5 with 2 successes, with one error
\* recorded before and retry_count 3
C20_Witness ==
    /\ pc = "check_research"
    /\ state.current_stage = "research_validated"
    /\ Len(state.research_outputs) = 5
    /\ Successes(state.research_outputs) = 2
    /\ state.retry_count = 3
    /\ state.errors = <<"company_profiler: backend unavailable",
                        "CRITICAL: Only 2/5 research agents succeeded">>

-----------------------------------------------------------------------------
(* Claims about what a finished run reports (checked under Spec).          *)

AllEntries == state.research_outputs \o state.analysis_outputs

\* the message the node's loop appends to errors for a failed entry
ErrorFor(e) == e.agent \o ": " \o Str(e.error)

\* C21: every failed entry recorded in research_outputs or analysis_outputs
\* has its message in errors; hence a run that ends at "complete" with an
\* empty errors list holds only entries with success = true, executed
\* research once and has retry_count 0.
C21_CleanCompleteIsFull ==
    /\ \A i \in 1..Len(AllEntries) :
          ~AllEntries[i].success =>
              \E j \in 1..Len(state.errors) : state.errors[j] = ErrorFor(AllEntries[i])
    /\ Len(AllEntries) - Successes(AllEntries) <= Len(state.errors)
    /\ (pc = "END" /\ state.current_stage = "complete" /\ state.errors = <<>>) =>
          /\ \A i \in 1..Len(AllEntries) : AllEntries[i].success
          /\ Len(state.research_outputs) = PerAttempt
          /\ Len(state.analysis_outputs) = Len(analysis_names)
          /\ researchRuns = 1
          /\ state.retry_count = 0

C21_Witness ==
    /\ pc = "END"
    /\ state.current_stage = "complete"
    /\ state.errors = <<>>
    /\ Successes(AllEntries) = PerAttempt + Len(analysis_names)

-----------------------------------------------------------------------------
(* Claims about _get_agent_output (checked under LookupSpec).              *)

SucceededFor(outs, name) == {i \in 1..Len(outs) : outs[i].agent = name /\ outs[i].success}

FirstSucceededFor(outs, name) ==
    CHOOSE i \in SucceededFor(outs, name) : \A j \in SucceededFor(outs, name) : i <= j

\* C22 as stated: the lookup returns the null marker exactly when no entry
\* of that name in the list succeeded.
C22_NullIffNoSuccess ==
    pc = "looked" =>
        (local.found = None <=> SucceededFor(state.research_outputs, local.name) = {})

\* C22, amended: the lookup returns the output field of the first entry in
\* list order that is recorded for that name with success = true (null when
\* that entry holds no parsed output, whatever later entries hold), and the
\* null marker when no entry of that name succeeded.
C22_FirstSuccessful ==
    pc = "looked" =>
        LET outs == state.research_outputs
        IN  IF SucceededFor(outs, local.name) = {}
            THEN local.found = None
            ELSE local.found = outs[FirstSucceededFor(outs, local.name)].output

\* company_profiler failed, then succeeded without parsed output, then
\* succeeded with one: the lookup returns the null output of the second entry
C22_Witness ==
    /\ pc = "looked"
    /\ local.name = "company_profiler"
    /\ Len(state.research_outputs) = 4
    /\ \A i \in 1..3 : state.research_outputs[i].agent = "company_profiler"
    /\ ~state.research_outputs[1].success
    /\ state.research_outputs[2].success /\ state.research_outputs[2].output = None
    /\ state.research_outputs[3].success /\ state.research_outputs[3].output # None
    /\ local.found = None

-----------------------------------------------------------------------------
(* Claims about parse_json_from_output (checked under ParseSpec).          *)

ParsingBlocks(text) == {k \in 1..Len(Blocks(text)) : IsJSON(Blocks(text)[k])}

FirstParsingBlock(text) ==
    Blocks(text)[CHOOSE k \in ParsingBlocks(text) : \A j \in ParsingBlocks(text) : k <= j]

\* C23: the parse returns the whole text when the whole text parses;
\* otherwise the first fenced block, in text order, that parses; otherwise
\* the substring from the first "{" to the last "}" when that parses;
\* otherwise nothing.  When nothing parses the task result keeps
\* success = true, output null and its raw text; in every case the result
\* stays successful with its raw text and without error, and its output is
\* null or the parsed value.
C23_ParseStrategies ==
    pc = "parsed" =>
        LET text == local.raw.text
            result == results[1]
        IN  /\ IsJSON(text) => local.parsed = Parsed(text)
            /\ (~IsJSON(text) /\ ParsingBlocks(text) # {}) =>
                  local.parsed = Parsed(FirstParsingBlock(text))
            /\ (~IsJSON(text) /\ ParsingBlocks(text) = {}) =>
                  local.parsed = braces_parse(text)
            /\ local.parsed = None => result.output = None
            /\ result.output \in {None, local.parsed}
            /\ result.success = TRUE
            /\ result.kind = "result"
            /\ result.error = None
            /\ result.raw_output = Some(local.raw)

\* a text with a fenced block that does not parse followed by one that does
C23_Witness ==
    /\ pc = "parsed"
    /\ local.raw.text = Fenced(Prose) \o Fenced(JSONObject)
    /\ results[1].output = Parsed(JSONObject)
    /\ results[1].success

-----------------------------------------------------------------------------
(* Claims relating research, validation and routing (checked under Spec).  *)

\* the state with research_outputs and retry_count replaced
RoutingInput(outs, rc) == [state EXCEPT !.research_outputs = outs, !.retry_count = rc]

\* C24: wherever routing is evaluated, on every research_outputs list and
\* every retry_count put in the state's place check_research_completeness
\* returns "failed" only for the empty list;
\* and in every run, once research_node has executed, research_outputs is
\* not empty and no routing decision is "failed", so a run that ends has
\* ended at "complete".
C24_NeverFailedAfterResearch ==
    /\ pc = "check_research" =>
          \A outs \in EntryLists(MaxLen), rc \in 0..MaxRetryCount :
              check_research_completeness(RoutingInput(outs, rc)) = "failed" => outs = <<>>
    /\ researchRuns >= 1 =>
          /\ state.research_outputs # <<>>
          /\ decision # "failed"
          /\ check_research_completeness(state) # "failed"
          /\ pc = "END" => state.current_stage = "complete"

\* three research executions in which every task failed: the decision is
\* still to retry
C24_Witness ==
    /\ researchRuns = 3
    /\ pc = "research"
    /\ decision = "incomplete"
    /\ Len(state.research_outputs) = 3 * PerAttempt
    /\ Successes(state.research_outputs) = 0

\* every CRITICAL message a run of the model can hold
CriticalTexts ==
    {"CRITICAL: Only " \o ToString(s) \o "/" \o ToString(t) \o " research agents succeeded" :
        s \in 0..(PerAttempt * (MaxResearchRuns + 1)),
        t \in 1..(PerAttempt * (MaxResearchRuns + 1))}

HoldsCritical(errs) == \E j \in 1..Len(errs) : errs[j] \in CriticalTexts

Holds(errs, e) == \E j \in 1..Len(errs) : errs[j] = e

\* C25 as stated: errors holds a CRITICAL error at every "incomplete"
\* decision and at every "complete" taken below the threshold, and holds
\* none at a "complete" taken because the ratio met the threshold.
C25_CriticalIffNotPassing ==
    /\ (pc = "research" /\ decision = "incomplete") => HoldsCritical(state.errors)
    /\ (pc = "analysis" /\ decision = "complete") =>
          (HoldsCritical(state.errors) <=> BelowThreshold(state.research_outputs))

\* C25, amended: on every non-empty list validate_research_node appends a
\* CRITICAL error exactly when check_research_completeness does not take
\* the ratio >= 0.5 branch; every "incomplete" decision and every "complete"
\* taken with retries exhausted follows the CRITICAL error that names the
\* same list (its successes and its length), and a "complete" taken on the
\* threshold follows none for that list, though errors can still hold the
\* CRITICAL errors of earlier attempts.
C25_ValidationAgreesWithRouting ==
    /\ [][pc = "validate_research" =>
            state'.errors =
                state.errors \o
                    (IF BelowThreshold(state.research_outputs)
                     THEN <<CriticalError(state.research_outputs)>> ELSE <<>>)]_vars
    /\ [][pc = "check_research" =>
            (decision' = "complete" <=> ~BelowThreshold(state.research_outputs))]_vars
    /\ [](pc = "check_research" =>
            \A outs \in EntryLists(MaxLen) \ {<<>>}, rc \in 0..MaxRetryCount :
                LET st == RoutingInput(outs, rc)
                    flagged == validate_delta(st).errors # <<>>
                    routed == check_research_completeness(Merge(st, validate_delta(st)))
                IN  /\ flagged <=> BelowThreshold(outs)
                    /\ ~flagged => routed = "complete"
                    /\ (flagged /\ rc < RetryLimit) => routed = "incomplete"
                    /\ (flagged /\ rc >= RetryLimit) => routed = "complete")
    /\ []((pc = "research" /\ researchRuns > 0) =>
            /\ decision = "incomplete"
            /\ Holds(state.errors, CriticalError(state.research_outputs)))
    /\ [](pc = "analysis" =>
            /\ decision = "complete"
            /\ ~Holds(state.errors, CriticalError(state.research_outputs)))

\* a first attempt with no success, then a retry with five: the decision is
\* "complete" on 5/10 while errors still holds the first validation's CRITICAL
C25_Witness ==
    /\ pc = "analysis"
    /\ researchRuns = 2
    /\ decision = "complete"
    /\ Successes(state.research_outputs) = PerAttempt
    /\ Holds(state.errors, "CRITICAL: Only 0/5 research agents succeeded")
    /\ ~Holds(state.errors, CriticalError(state.research_outputs))

====
